---- MODULE Spec2Model ----
(***************************************************************************)
(* Model of src/code/scholar_search.py: the fan-out of five search_scholar *)
(* calls joined by asyncio.gather, the event-loop adapter                  *)
(* run_async_with_thread_pool, and the __main__ block that writes the JSON *)
(* file and prints the per-category summary.                               *)
(*                                                                         *)
(* The external client is the environment: on the first run each call may  *)
(* return any SearchResult of Responses, raise, or hang.  After a run that *)
(* ended normally the script may be run again against a client that        *)
(* replays the responses of the first run (variable mock).                 *)
(***************************************************************************)
EXTENDS Integers, Sequences, FiniteSets, TLC

\* ---------------------------------------------------------------- bounds
\* largest length of data.papers the client returns
MaxPapers == 1

\* ------------------------------------------------------ program constants
\* number of entries of search_tasks (lines 10-41)
NumCalls == 5

Calls == 1..NumCalls

\* the keys of the returned mapping, in the order of lines 47-51
Labels ==
  << "content_curation", "recommendation_systems", "automated_reporting",
     "financial_visualization", "content_aggregation" >>

\* the thread that executes __main__
MainThread == "MainThread"

\* --------------------------------------------------- SearchResult values
\* dict.get(key, default)
Get(d, k, def) == IF k \in DOMAIN d THEN d[k] ELSE def

Papers(k) == [j \in 1..k |-> "paper"]

OkPapers(k) == [success |-> TRUE, data |-> [papers |-> Papers(k)]]
OkNoPapersField == [success |-> TRUE, data |-> [total |-> 0]]
OkNoData == [success |-> TRUE]
FailWithError == [success |-> FALSE, error |-> "rate limited"]
FailNoError == [success |-> FALSE]

\* what one search_scholar call can return
Responses ==
  {OkPapers(k) : k \in 0..MaxPapers}
    \cup {OkNoPapersField, OkNoData, FailWithError, FailNoError}

\* the result slot of a call that has not returned
NoResult == [unset |-> TRUE]

\* scholar_results / the coroutine's return value before it is produced
NoBundle == << >>

VARIABLES
  run,        \* "first" | "second": which execution of the script this is
  mock,       \* responses replayed by the client (NoResult: live client)
  pc,         \* position of the main thread in __main__ / the adapter
  exitCode,   \* -1 while the process runs, then 0 or 1
  executor,   \* "none" | "open" | "shutdown": the ThreadPoolExecutor
  workers,    \* threads the executor has started
  loop,       \* "none" | "created" | "running" | "stopped" | "closed"
  loopThread, \* thread that drives the loop ("none" before it is driven)
  mainPc,     \* position of the coroutine search_scholar_papers
  callSt,     \* per call: none, coro, task, returned, raised, hung, cancelled
  childRes,   \* per call: the value it returned, or NoResult
  outer,      \* the gather future: "none" | "pending" | "result" | "exception"
  ret,        \* the mapping returned by search_scholar_papers
  file,       \* the output file: [exists, content]
  prevFile,   \* the file as the previous run left it
  stdout      \* the lines printed so far

vars ==
  << run, mock, pc, exitCode, executor, workers, loop, loopThread, mainPc,
     callSt, childRes, outer, ret, file, prevFile, stdout >>

NoFile == [exists |-> FALSE, content |-> << >>]

Init ==
  /\ run = "first"
  /\ mock = [i \in Calls |-> NoResult]
  /\ pc = "start"
  /\ exitCode = -1
  /\ executor = "none"
  /\ workers = {}
  /\ loop = "none"
  /\ loopThread = "none"
  /\ mainPc = "none"
  /\ callSt = [i \in Calls |-> "none"]
  /\ childRes = [i \in Calls |-> NoResult]
  /\ outer = "none"
  /\ ret = NoBundle
  /\ file = NoFile
  /\ prevFile = NoFile
  /\ stdout = << >>

\* ------------------------------------------------ run_async_with_thread_pool
\* line 56: with ThreadPoolExecutor() as executor -- nothing is submitted to
\* it, so it never starts a worker thread
EnterExecutor ==
  /\ pc = "start"
  /\ executor' = "open"
  /\ workers' = {}
  /\ pc' = "new_loop"
  /\ UNCHANGED << run, mock, exitCode, loop, loopThread, mainPc, callSt,
                  childRes, outer, ret, file, prevFile, stdout >>

\* lines 57-58: new_event_loop(), set_event_loop(loop)
NewEventLoop ==
  /\ pc = "new_loop"
  /\ loop' = "created"
  /\ pc' = "run"
  /\ UNCHANGED << run, mock, exitCode, executor, workers, loopThread, mainPc,
                  callSt, childRes, outer, ret, file, prevFile, stdout >>

\* line 60: loop.run_until_complete(search_scholar_papers()) is called on the
\* thread that executes run_async_with_thread_pool; the coroutine becomes the
\* loop's main task
RunUntilComplete ==
  /\ pc = "run"
  /\ loop' = "running"
  /\ loopThread' = MainThread
  /\ mainPc' = "build"
  /\ pc' = "in_loop"
  /\ UNCHANGED << run, mock, exitCode, executor, workers, callSt, childRes,
                  outer, ret, file, prevFile, stdout >>

\* ----------------------------------------------------- search_scholar_papers
\* positions at which the coroutine holds the loop's single thread
MainExecuting == {"build"}

\* a child task can take a step only while the loop runs and the main task
\* does not hold the thread
ChildMayRun == loop = "running" /\ mainPc \notin MainExecuting

\* the next entry of search_tasks to construct
NextToBuild == Cardinality({i \in Calls : callSt[i] # "none"}) + 1

\* lines 11-40 written as a sequential loop: each call is awaited as soon as
\* it is created
BuildCall_sequential ==
  /\ mainPc = "build"
  /\ NextToBuild \in Calls
  /\ callSt' = [callSt EXCEPT ![NextToBuild] = "task"]
  /\ mainPc' = "await_one"
  /\ outer' = "pending"
  /\ UNCHANGED << run, mock, pc, exitCode, executor, workers, loop,
                  loopThread, childRes, ret, file, prevFile, stdout >>

\* lines 11-40: one client.scholar.search_scholar(...) expression creates the
\* coroutine object of the next call; nothing is awaited
BuildCall ==
  /\ mainPc = "build"
  /\ NextToBuild \in Calls
  /\ callSt' = [callSt EXCEPT ![NextToBuild] = "coro"]
  /\ UNCHANGED << run, mock, pc, exitCode, executor, workers, loop,
                  loopThread, mainPc, childRes, outer, ret, file, prevFile,
                  stdout >>

\* line 44: asyncio.gather(*search_tasks) wraps every coroutine in a task
\* scheduled on the loop, and the await suspends the coroutine on the
\* gather future
Gather ==
  /\ mainPc = "build"
  /\ \A i \in Calls : callSt[i] = "coro"
  /\ callSt' = [i \in Calls |-> "task"]
  /\ outer' = "pending"
  /\ mainPc' = "await"
  /\ UNCHANGED << run, mock, pc, exitCode, executor, workers, loop,
                  loopThread, childRes, ret, file, prevFile, stdout >>

\* gather's completion callback as a race: the first completed child
\* resolves the future
GatherDone_first(o, st, i) ==
  [ outer |-> IF o # "pending" THEN o
              ELSE IF st[i] = "raised" THEN "exception" ELSE "result",
    calls |-> st ]

\* gather's completion callback with return_exceptions=True: a raised child
\* counts as a finished one
GatherDone_return_exceptions(o, st, i) ==
  [ outer |-> IF o # "pending" THEN o
              ELSE IF \A j \in Calls : st[j] \in {"returned", "raised"}
                THEN "result" ELSE "pending",
    calls |-> st ]

\* gather's completion callback as a task group: a raised child cancels its
\* unfinished siblings
GatherDone_cancel(o, st, i) ==
  [ outer |-> IF o # "pending" THEN o
              ELSE IF st[i] = "raised" THEN "exception"
              ELSE IF \A j \in Calls : st[j] = "returned" THEN "result"
              ELSE "pending",
    calls |-> IF o = "pending" /\ st[i] = "raised"
                THEN [j \in Calls |->
                        IF st[j] \in {"task", "hung"} THEN "cancelled"
                        ELSE st[j]]
                ELSE st ]

\* line 44: what asyncio.gather (return_exceptions=False) does when child i
\* completes, st being the children's states after the completion: a future
\* already resolved stays as it is; the first raised child resolves it with
\* the exception at once and leaves the siblings alone; otherwise it is
\* resolved with the results once every child has returned
GatherDone(o, st, i) ==
  [ outer |-> IF o # "pending" THEN o
              ELSE IF st[i] = "raised" THEN "exception"
              ELSE IF \A j \in Calls : st[j] = "returned" THEN "result"
              ELSE "pending",
    calls |-> st ]

\* the client returns a SearchResult for call i
Return(i) ==
  /\ ChildMayRun
  /\ callSt[i] = "task"
  /\ \E r \in (IF mock[i] = NoResult THEN Responses ELSE {mock[i]}) :
       childRes' = [childRes EXCEPT ![i] = r]
  /\ LET g == GatherDone(outer, [callSt EXCEPT ![i] = "returned"], i)
     IN  /\ outer' = g.outer
         /\ callSt' = g.calls
  /\ UNCHANGED << run, mock, pc, exitCode, executor, workers, loop,
                  loopThread, mainPc, ret, file, prevFile, stdout >>

\* the client raises in call i (live client only)
Raise(i) ==
  /\ ChildMayRun
  /\ callSt[i] = "task"
  /\ mock[i] = NoResult
  /\ LET g == GatherDone(outer, [callSt EXCEPT ![i] = "raised"], i)
     IN  /\ outer' = g.outer
         /\ callSt' = g.calls
  /\ UNCHANGED << run, mock, pc, exitCode, executor, workers, loop,
                  loopThread, mainPc, childRes, ret, file, prevFile, stdout >>

\* call i turns out never to complete (live client only)
Hang(i) ==
  /\ ChildMayRun
  /\ callSt[i] = "task"
  /\ mock[i] = NoResult
  /\ callSt' = [callSt EXCEPT ![i] = "hung"]
  /\ UNCHANGED << run, mock, pc, exitCode, executor, workers, loop,
                  loopThread, mainPc, childRes, outer, ret, file, prevFile,
                  stdout >>

\* lines 46-52 with two indices exchanged
Bundle_swapped(results) ==
  << [key |-> "content_curation", value |-> results[1]],
     [key |-> "recommendation_systems", value |-> results[3]],
     [key |-> "automated_reporting", value |-> results[2]],
     [key |-> "financial_visualization", value |-> results[4]],
     [key |-> "content_aggregation", value |-> results[5]] >>

\* lines 46-52: the returned dict, in insertion order
Bundle(results) ==
  << [key |-> "content_curation", value |-> results[1]],
     [key |-> "recommendation_systems", value |-> results[2]],
     [key |-> "automated_reporting", value |-> results[3]],
     [key |-> "financial_visualization", value |-> results[4]],
     [key |-> "content_aggregation", value |-> results[5]] >>

\* lines 44-52: the await yields the list of the children's results in
\* argument order and the coroutine returns the labelled mapping
MainResumeReturn ==
  /\ loop = "running"
  /\ mainPc = "await"
  /\ outer = "result"
  /\ ret' = Bundle([i \in Calls |-> childRes[i]])
  /\ mainPc' = "returned"
  /\ UNCHANGED << run, mock, pc, exitCode, executor, workers, loop,
                  loopThread, callSt, childRes, outer, file, prevFile,
                  stdout >>

\* line 44: the await re-raises the exception of the gather future and the
\* coroutine ends with it (there is no handler)
MainResumeRaise ==
  /\ loop = "running"
  /\ mainPc = "await"
  /\ outer = "exception"
  /\ mainPc' = "raised"
  /\ UNCHANGED << run, mock, pc, exitCode, executor, workers, loop,
                  loopThread, callSt, childRes, outer, ret, file, prevFile,
                  stdout >>

\* line 60: the main task is done, the loop stops and run_until_complete
\* returns its result or raises its exception
RunUntilCompleteDone ==
  /\ pc = "in_loop"
  /\ mainPc \in {"returned", "raised"}
  /\ loop' = "stopped"
  /\ pc' = "finally"
  /\ UNCHANGED << run, mock, exitCode, executor, workers, loopThread, mainPc,
                  callSt, childRes, outer, ret, file, prevFile, stdout >>

\* line 63 placed after line 61 instead of in a finally clause
Finally_on_return_only ==
  /\ pc = "finally"
  /\ loop' = IF mainPc = "returned" THEN "closed" ELSE loop
  /\ pc' = "exit_with"
  /\ UNCHANGED << run, mock, exitCode, executor, workers, loopThread, mainPc,
                  callSt, childRes, outer, ret, file, prevFile, stdout >>

\* lines 62-63: finally: loop.close(), on the return and on the exception
\* path
Finally ==
  /\ pc = "finally"
  /\ loop' = "closed"
  /\ pc' = "exit_with"
  /\ UNCHANGED << run, mock, exitCode, executor, workers, loopThread, mainPc,
                  callSt, childRes, outer, ret, file, prevFile, stdout >>

\* line 56 (end of the with block) and lines 61, 67: the executor is shut
\* down and control is back in __main__, with the mapping or with the
\* exception
ExitWith ==
  /\ pc = "exit_with"
  /\ executor' = "shutdown"
  /\ pc' = IF mainPc = "returned" THEN "open_file" ELSE "traceback"
  /\ UNCHANGED << run, mock, exitCode, workers, loop, loopThread, mainPc,
                  callSt, childRes, outer, ret, file, prevFile, stdout >>

\* ------------------------------------------------------------------ __main__
\* line 72 with mode 'a'
OpenFile_append ==
  /\ pc = "open_file"
  /\ file' = [exists |-> TRUE, content |-> file.content]
  /\ pc' = "dump"
  /\ UNCHANGED << run, mock, exitCode, executor, workers, loop, loopThread,
                  mainPc, callSt, childRes, outer, ret, prevFile, stdout >>

\* line 72: open(path, 'w') creates the file or truncates it
OpenFile ==
  /\ pc = "open_file"
  /\ file' = [exists |-> TRUE, content |-> << >>]
  /\ pc' = "dump"
  /\ UNCHANGED << run, mock, exitCode, executor, workers, loop, loopThread,
                  mainPc, callSt, childRes, outer, ret, prevFile, stdout >>

\* json.dump(obj, f, indent=2): one JSON object whose members are the
\* mapping's items in insertion order
JsonObject(b) == [i \in 1..Len(b) |-> << b[i].key, b[i].value >>]

\* line 73: the document is written at the end of what the file holds
JsonDump ==
  /\ pc = "dump"
  /\ file' = [file EXCEPT !.content = Append(@, JsonObject(ret))]
  /\ pc' = "print"
  /\ UNCHANGED << run, mock, exitCode, executor, workers, loop, loopThread,
                  mainPc, callSt, childRes, outer, ret, prevFile, stdout >>

\* lines 77-81 with the count taken of data instead of data.papers
SummaryLine_len_of_data(category, results) ==
  IF Get(results, "success", FALSE)
    THEN category \o ": Found "
           \o ToString(Cardinality(DOMAIN Get(results, "data", << >>)))
           \o " papers"
    ELSE category \o ": Search failed - "
           \o Get(results, "error", "Unknown error")

\* lines 77-81: the line printed for one item of scholar_results
SummaryLine(category, results) ==
  IF Get(results, "success", FALSE)
    THEN category \o ": Found "
           \o ToString(Len(Get(Get(results, "data", << >>), "papers", << >>)))
           \o " papers"
    ELSE category \o ": Search failed - "
           \o Get(results, "error", "Unknown error")

\* lines 76-81: the summary loop over scholar_results.items(); the script
\* then ends normally
PrintSummary ==
  /\ pc = "print"
  /\ stdout' = [i \in 1..Len(ret) |-> SummaryLine(ret[i].key, ret[i].value)]
  /\ pc' = "exited"
  /\ exitCode' = 0
  /\ UNCHANGED << run, mock, executor, workers, loop, loopThread, mainPc,
                  callSt, childRes, outer, ret, file, prevFile >>

\* line 67: the exception leaves __main__ unhandled; the interpreter prints
\* the traceback and exits with status 1
Unhandled ==
  /\ pc = "traceback"
  /\ pc' = "exited"
  /\ exitCode' = 1
  /\ UNCHANGED << run, mock, executor, workers, loop, loopThread, mainPc,
                  callSt, childRes, outer, ret, file, prevFile, stdout >>

\* the script is executed again after a normal end, against a client that
\* replays the responses of the first run; only the file survives
Rerun ==
  /\ pc = "exited"
  /\ exitCode = 0
  /\ run = "first"
  /\ run' = "second"
  /\ mock' = childRes
  /\ prevFile' = file
  /\ pc' = "start"
  /\ exitCode' = -1
  /\ executor' = "none"
  /\ workers' = {}
  /\ loop' = "none"
  /\ loopThread' = "none"
  /\ mainPc' = "none"
  /\ callSt' = [i \in Calls |-> "none"]
  /\ childRes' = [i \in Calls |-> NoResult]
  /\ outer' = "none"
  /\ ret' = NoBundle
  /\ stdout' = << >>
  /\ UNCHANGED file

Next ==
  \/ EnterExecutor
  \/ NewEventLoop
  \/ RunUntilComplete
  \/ BuildCall
  \/ Gather
  \/ \E i \in Calls : Return(i)
  \/ \E i \in Calls : Raise(i)
  \/ \E i \in Calls : Hang(i)
  \/ MainResumeReturn
  \/ MainResumeRaise
  \/ RunUntilCompleteDone
  \/ Finally
  \/ ExitWith
  \/ OpenFile
  \/ JsonDump
  \/ PrintSummary
  \/ Unhandled
  \/ Rerun

Spec == Init /\ [][Next]_vars

TypeOK ==
  /\ run \in {"first", "second"}
  /\ pc \in {"start", "new_loop", "run", "in_loop", "finally", "exit_with",
             "open_file", "dump", "print", "traceback", "exited"}
  /\ exitCode \in {-1, 0, 1}
  /\ loop \in {"none", "created", "running", "stopped", "closed"}
  /\ mainPc \in {"none", "build", "await", "returned", "raised"}
  /\ \A i \in Calls :
       callSt[i] \in {"none", "coro", "task", "returned", "raised", "hung"}
  /\ outer \in {"none", "pending", "result", "exception"}

\* ------------------------------------------------------------ shorthands
Completed(i) == callSt[i] \in {"returned", "raised"}
Submitted(i) == callSt[i] \notin {"none", "coro"}
Unfinished(i) == callSt[i] \in {"task", "hung"}
MainResumed == mainPc \in {"returned", "raised"}
SomeRaised == \E i \in Calls : callSt[i] = "raised"
SomeHung == \E i \in Calls : callSt[i] = "hung"
\* control is back in the caller of run_async_with_thread_pool
BackInCaller == pc \in {"open_file", "dump", "print", "traceback", "exited"}

\* ---------------------------------------------------------------- claims

\* C1: when all five calls have returned a value, search_scholar_papers
\* returns a mapping with exactly the five fixed keys, in order, and the Nth
\* key maps to the value the Nth call returned, whatever the completion
\* order and whether or not a value is error-flagged.
C1_PositionalBundle ==
  mainPc = "returned" =>
    /\ Len(ret) = 5
    /\ ret[1].key = "content_curation"
    /\ ret[2].key = "recommendation_systems"
    /\ ret[3].key = "automated_reporting"
    /\ ret[4].key = "financial_visualization"
    /\ ret[5].key = "content_aggregation"
    /\ \A n \in 1..5 : callSt[n] = "returned" /\ ret[n].value = childRes[n]

\* a bundle returned with one error-flagged entry among differing successes
C1_Witness ==
  /\ mainPc = "returned"
  /\ childRes[2] = FailWithError
  /\ childRes[1] = OkPapers(1)
  /\ childRes[3] = OkPapers(0)
  /\ ret[2].value = FailWithError

\* C2: once any call has raised, no mapping is returned, the output file is
\* not opened or written, no summary line is printed, and the process can
\* only end with the nonzero exit status.
C2_RaiseAborts ==
  SomeRaised =>
    /\ ret = NoBundle
    /\ mainPc # "returned"
    /\ file = NoFile
    /\ stdout = << >>
    /\ pc \notin {"open_file", "dump", "print"}
    /\ exitCode \in {-1, 1}
    /\ (pc = "exited" => exitCode = 1)

\* the process has ended after a raise that followed four returned values
C2_Witness ==
  /\ pc = "exited"
  /\ exitCode = 1
  /\ callSt[5] = "raised"
  /\ \A i \in 1..4 : callSt[i] = "returned"
  /\ file = NoFile

\* C3 as claimed: the coroutine resumes from the join, by returning or by
\* raising, only when every call has completed.
C3_Original == MainResumed => \A i \in Calls : Completed(i)

\* C3 amended: the coroutine returns from the join only when every call has
\* returned; it raises from the join only after some call raised, and the
\* gather future fails as soon as the first call raises, whatever is pending.
C3_JoinResume ==
  /\ mainPc = "returned" => \A i \in Calls : callSt[i] = "returned"
  /\ mainPc = "raised" => SomeRaised
  /\ SomeRaised => outer = "exception"
  /\ outer = "result" => \A i \in Calls : callSt[i] = "returned"

\* the coroutine has raised while a call is still pending
C3_Witness ==
  /\ mainPc = "raised"
  /\ callSt[1] = "raised"
  /\ callSt[2] = "task"
  /\ callSt[3] = "returned"

\* C4 as claimed: while some call hangs, the coroutine does not resume and
\* the process writes nothing, prints nothing and does not exit.
C4_Original ==
  SomeHung =>
    /\ ~MainResumed
    /\ pc = "in_loop"
    /\ file = NoFile
    /\ stdout = << >>
    /\ exitCode = -1

\* C4 amended: while some call hangs and no call has raised, the coroutine
\* stays at the join and the process writes nothing, prints nothing and does
\* not exit; a process that ends with a hung call ends by the error path.
C4_HangStalls ==
  /\ (SomeHung /\ ~SomeRaised) =>
       /\ mainPc = "await"
       /\ outer = "pending"
       /\ pc = "in_loop"
       /\ file = NoFile
       /\ stdout = << >>
       /\ exitCode = -1
  /\ (SomeHung /\ pc # "in_loop") => (SomeRaised /\ mainPc = "raised")

\* one call hangs, the other four have returned, the batch is stalled
C4_Witness ==
  /\ callSt[3] = "hung"
  /\ \A i \in Calls \ {3} : callSt[i] = "returned"
  /\ mainPc = "await"

\* C5: whenever control is back in the caller of run_async_with_thread_pool,
\* by return or by exception, the loop the call created is closed.
C5_LoopClosed == BackInCaller => loop = "closed"

\* control is back in the caller with the exception, the loop closed
C5_Witness == pc = "traceback" /\ mainPc = "raised" /\ loop = "closed"

\* C6 as claimed: the loop that runs the calls is driven by a worker thread
\* of the pool, distinct from the caller's thread.
C6_Original ==
  loop = "running" => (loopThread \in workers /\ loopThread # MainThread)

\* C7: after a run in which all five calls returned, the console holds one
\* line per category in submission order: "Found N papers" for a
\* success-flagged result, N the length of data.papers and 0 when data or
\* papers is absent; "Search failed - error" otherwise, "Unknown error" when
\* the error field is absent.
C7_Summary ==
  (pc = "exited" /\ exitCode = 0) =>
    /\ Len(stdout) = 5
    /\ \A n \in 1..5 :
         LET r == childRes[n]
             c == Labels[n]
         IN  /\ (\E k \in 0..MaxPapers : r = OkPapers(k)) =>
                  stdout[n] = c \o ": Found " \o ToString(Len(r.data.papers))
                                \o " papers"
             /\ r \in {OkNoData, OkNoPapersField} =>
                  stdout[n] = c \o ": Found 0 papers"
             /\ r = OkPapers(0) => stdout[n] = c \o ": Found 0 papers"
             /\ r = FailWithError =>
                  stdout[n] = c \o ": Search failed - rate limited"
             /\ r = FailNoError =>
                  stdout[n] = c \o ": Search failed - Unknown error"

\* a summary with a count, an absent data field, an absent papers field and
\* both kinds of failure
C7_Witness ==
  /\ pc = "exited"
  /\ exitCode = 0
  /\ childRes = << OkPapers(1), OkNoData, OkNoPapersField, FailWithError,
                   FailNoError >>
  /\ stdout[1] = "content_curation: Found 1 papers"
  /\ stdout[5] = "content_aggregation: Search failed - Unknown error"

\* C8: all five calls are submitted before any of them is awaited: a call
\* completes (or is found hung) only when all five are submitted, and the
\* coroutine is suspended only at the join on all five.
C8_FanOut ==
  /\ (\E i \in Calls : Completed(i) \/ callSt[i] = "hung") =>
       \A j \in Calls : Submitted(j)
  /\ (loop = "running" /\ mainPc \notin MainExecuting) =>
       (outer # "none" /\ \A j \in Calls : Submitted(j))
  /\ (\E i \in Calls : callSt[i] = "task") => \A j \in Calls : Submitted(j)

\* the last call has completed while the first is still pending at the join
C8_Witness ==
  /\ callSt[5] = "returned"
  /\ callSt[1] = "task"
  /\ mainPc = "await"

\* C9: a second run in which the calls return the same results as in the
\* first leaves the file with the content the first run left.
C9_Idempotent ==
  (run = "second" /\ pc \in {"print", "exited"}) =>
    /\ file = prevFile
    /\ Len(file.content) = 1
    /\ childRes = mock

\* the second run has ended and the file holds a non-trivial document
C9_Witness ==
  /\ run = "second"
  /\ pc = "exited"
  /\ file.exists
  /\ childRes[1] = OkPapers(1)
  /\ childRes[4] = FailWithError

\* C10 as claimed: when the loop is closed after a raise, every call has
\* completed or has been cancelled.
C10_Original ==
  (loop = "closed" /\ mainPc = "raised") =>
    \A i \in Calls : Completed(i) \/ callSt[i] = "cancelled"

\* C10 amended: a raise aborts the coroutine but cancels nothing: no call is
\* ever cancelled, so the calls that had not completed are still pending
\* when the loop is closed and the error propagates.
C10_NoCancel ==
  /\ \A i \in Calls : callSt[i] # "cancelled"
  /\ mainPc = "raised" =>
       \A i \in Calls : Completed(i) \/ Unfinished(i)

\* the loop is closed after a raise with calls left pending
C10_Witness ==
  /\ loop = "closed"
  /\ mainPc = "raised"
  /\ callSt[1] = "raised"
  /\ \A i \in Calls \ {1} : callSt[i] = "task"
====
